---- MODULE Spec2Model ----
(***************************************************************************)
(* Model of the asynchronous process executor of src/src/sys-node.mjs      *)
(* (class Executor): one executor object, the child processes it spawned,  *)
(* the event handlers wired by execute() and the consumers suspended in    *)
(* getNextStdoutLine / getNextStderrLine.                                  *)
(*                                                                         *)
(* Text is a sequence of one-character strings; a line is such a sequence. *)
(* A JavaScript null is 0 for a callback slot and <<>> for the exit        *)
(* status (a status c is <<c>>).                                           *)
(***************************************************************************)
EXTENDS Integers, Sequences, FiniteSets, TLC

\* ---------------------------------------------------------------- bounds
NReaders    == 2     \* next-line calls in flight at once
MaxRuns     == 2     \* execute() calls on the executor
MaxChunkLen == 2     \* characters delivered by one data event
MaxReads    == 3     \* next-line calls per stream within one run
MaxStale    == 1     \* events delivered by children of superseded runs

Readers == 1..NReaders
NoFn    == 0
NL      == "\n"

\* ------------------------------------------------------------ child output
\* The children execute() may start: what each writes to stdout and to
\* stderr before it exits.
Printf == << "a", NL, "b", NL, "c" >>

Children ==
    { [out |-> Printf,                   err |-> <<>>],
      [out |-> << "a", "b", NL, NL >>,   err |-> << "e", NL, "f" >>] }

ExitCodes == {0, 1}
ENOENT    == 0 - 2

\* ------------------------------------------------------------------ state
VARIABLES
    bRunning, iExitStatus,
    aStdoutBuffer, aStderrBuffer,
    sStdoutChunk, sStderrChunk,
    iStdoutIndex, iStderrIndex,
    fnOutputResolve, fnOutputReject,
    procs,       \* the child processes spawned so far, in spawn order
    runs,        \* number of execute() calls made
    stale,       \* number of events delivered by children of earlier runs
    threw,       \* TRUE iff the last execute() call threw synchronously
    pc,          \* per reader: "idle", "suspended", "woken", "rejected"
    rstream,     \* per reader: the stream of its call in flight, or "none"
    console,     \* number of console.error reports of the error handler
    written,     \* per stream: the text delivered by data events in this run
    results,     \* per stream: the settled results of this run, in order
    lastError,   \* what the last error event found and did
    afterError,  \* the first next-line call after an error nobody waited for
    overlap,     \* two next-line calls have been outstanding at once
    seen,        \* what the next-line calls of this run have met (see Met);
                 \* recorded in HistorySpec only
    command,     \* the kind of command of the last execute() call, or "none"
    sync,        \* one execCommandSync call: its input, the platform's answer
                 \* and what the call returned (Null until it returns)
    split,       \* one splitString call: its arguments and the array it
                 \* returned (Null until it returns)
    heap,        \* per Executor object made by execCommandAsync: its fields
    kids,        \* per executor: the child its execute() spawned
    cpc,         \* per executor: where its consumer is (as pc)
    cstream,     \* per executor: the stream of its consumer's call in flight
    actor        \* the executor whose method or handler ran last

progVars == << bRunning, iExitStatus, aStdoutBuffer, aStderrBuffer,
               sStdoutChunk, sStderrChunk, iStdoutIndex, iStderrIndex,
               fnOutputResolve, fnOutputReject >>
envVars  == << procs, runs, stale, threw, pc, rstream, console >>
obsVars  == << written, results, lastError, afterError, overlap, seen >>
isoVars  == << heap, kids, cpc, cstream, actor >>
callVars == << sync, split, isoVars >>
soloVars == << progVars, envVars, obsVars, command, sync, split >>
auxVars  == << callVars, command >>
vars     == << progVars, envVars, obsVars, auxVars >>

\* ------------------------------------------------------------ pure helpers
\* String.prototype.split ("\n"): the pieces between separators; a text
\* without separator gives one piece, the empty text gives <<"">>.
RECURSIVE Split(_)
Split(s) ==
    IF \A i \in 1..Len(s) : s[i] # NL
    THEN << s >>
    ELSE LET i == CHOOSE k \in 1..Len(s) :
                     s[k] = NL /\ \A j \in 1..(k - 1) : s[j] # NL
         IN  << SubSeq(s, 1, i - 1) >> \o Split(SubSeq(s, i + 1, Len(s)))

\* Mutant: the last piece is thrown away instead of kept as the remainder.
PopValue_Dropped(aLines) == <<>>

\* aLines.pop (): the value returned (the last piece) ...
PopValue(aLines) == aLines[Len(aLines)]
\* Mutant: the last piece is pushed into the buffer with the others.
PopRest_Kept(aLines) == aLines

\* ... and the array it leaves behind.
PopRest(aLines) == SubSeq(aLines, 1, Len(aLines) - 1)

\* Mutant: the new lines replace the buffer.
Push_Replace(aBuffer, aLines) == aLines

\* aBuffer.push (...aLines)
Push(aBuffer, aLines) == aBuffer \o aLines

\* The loop condition of the next-line methods: no unread line at the cursor.
NoUnread(iIndex, aBuffer) == iIndex >= Len(aBuffer)

\* Mutant: the newest line is read instead of the one at the cursor.
ReadAt_Newest(aBuffer, iIndex) == aBuffer[Len(aBuffer)]

\* aBuffer[iIndex++]: the element read (JavaScript indexes from 0) ...
ReadAt(aBuffer, iIndex) == aBuffer[iIndex + 1]
\* Mutant: the cursor skips a line.
Advance_Skip(iIndex) == iIndex + 2

\* Mutant: the cursor is not advanced.
Advance_Stay(iIndex) == iIndex

\* ... and the cursor after it.
Advance(iIndex) == iIndex + 1

\* Results of a settled next-line call.
Line(l) == [kind |-> "line", line |-> l]
Eof     == [kind |-> "eof", line |-> <<>>]
Failure == [kind |-> "error", line |-> <<>>]

\* The runtime drains the microtask queue (the continuations of settled
\* promises) before it delivers the next I/O event.
MicrotasksDrained == \A r \in Readers : pc[r] \in {"idle", "suspended"}

\* The handlers of a child stay wired to the executor after a later
\* execute(): an event of a child of run k is delivered in run runs >= k.
Procs == 1..Len(procs)

IsStale(p) == procs[p].run < runs

Deliverable(p) == IsStale(p) => stale < MaxStale

\* A failed spawn reports its error on the next tick, ahead of every I/O
\* event (data, close) of any child.
ErrorDue ==
    \E p \in Procs : /\ procs[p].kind = "enoent"
                     /\ procs[p].phase = "spawned"
                     /\ Deliverable(p)

Deliver(p) ==
    /\ p \in Procs
    /\ MicrotasksDrained
    /\ Deliverable(p)
    /\ stale' = IF IsStale(p) THEN stale + 1 ELSE stale

DeliverIO(p) == Deliver(p) /\ ~ErrorDue

Outstanding(s) == { r \in Readers : pc[r] # "idle" /\ rstream[r] = s }

Streams == {"stdout", "stderr"}

\* Mutant: the run state is tested before the buffer.
LoopStep_EofFirst(running, iIndex, aBuffer) ==
    IF ~running THEN "eof"
    ELSE IF NoUnread(iIndex, aBuffer) THEN "wait" ELSE "line"

\* Mutant: the loop waits whenever no line is unread, running or not.
LoopStep_AlwaysWait(running, iIndex, aBuffer) ==
    IF NoUnread(iIndex, aBuffer) THEN "wait" ELSE "line"

\* Mutant: the loop does not wait while the process is running.
LoopStep_NoWait(running, iIndex, aBuffer) ==
    IF NoUnread(iIndex, aBuffer) THEN "eof" ELSE "line"

\* What one evaluation of the next-line loop does: return the line at the
\* cursor, return null, or register a promise and suspend.
LoopStep(running, iIndex, aBuffer) ==
    IF NoUnread(iIndex, aBuffer)
    THEN IF ~running THEN "eof" ELSE "wait"
    ELSE "line"

\* Mutant: the callback is called on a promise nobody awaits any more.
Settle_Lost(fn, pcs, how) == pcs

\* fnResolve () / fnReject (e) of the promise of reader fn: the reader's
\* continuation is queued if the promise is still pending, otherwise the
\* call has no effect.
Settle(fn, pcs, how) ==
    IF fn # NoFn /\ pcs[fn] = "suspended"
    THEN [pcs EXCEPT ![fn] = how]
    ELSE pcs

\* The slot after the notify block "if (fn) { fn (); fn = null; }".
ClearSlot(fn) == NoFn

\* -------------------------------------------------------- execCommandSync
\* null, and a value that is not null.
Null == <<>>
Some(v) == << v >>

\* The initial value of aResult in both variants: [ false, -1, "", "" ].
DefaultResult == << FALSE, Some(0 - 1), Some(<<>>), Some(<<>>) >>

\* String.prototype.trim.
IsSpace(c) == c \in {" ", NL}

RECURSIVE TrimStart(_)
TrimStart(s) == IF s # <<>> /\ IsSpace(Head(s)) THEN TrimStart(Tail(s)) ELSE s

RECURSIVE TrimEnd(_)
TrimEnd(s) ==
    IF s # <<>> /\ IsSpace(s[Len(s)]) THEN TrimEnd(SubSeq(s, 1, Len(s) - 1)) ELSE s

Trim(s) == TrimEnd(TrimStart(s))

\* The inputs of a call: the argument is an array that names an executable
\* ("argv"), an empty array, or no array at all; the executable cannot be
\* launched, exits with a code, or is ended by a signal.
SyncCodes == {0, 1, 2}
SyncTexts == { <<>>, << "a" >>, << "a", NL >> }
SyncArgs == {"argv", "empty", "undefined"}

NoProcess == [kind |-> "none", code |-> 0, out |-> <<>>, err |-> <<>>]

SyncChildren ==
    { [kind |-> "nolaunch", code |-> 0, out |-> <<>>, err |-> <<>>] }
        \cup [kind : {"exit"}, code : SyncCodes, out : SyncTexts, err : SyncTexts]
        \cup [kind : {"signal"}, code : {0}, out : SyncTexts, err : SyncTexts]

SyncCases ==
    { ac \in SyncArgs \X (SyncChildren \cup {NoProcess}) :
          (ac[1] = "argv") <=> (ac[2].kind # "none") }

\* SubProcess.spawnSync of Node.js: it throws on an argument that names no
\* executable; a launch failure is returned as an object with an error, a
\* null status and null output; a child ended by a signal has a null
\* status.
SpawnSyncThrew == [threw |-> TRUE, status |-> Null, stdout |-> Null, stderr |-> Null]

SpawnSync(arg, child) ==
    IF arg # "argv" THEN { SpawnSyncThrew }
    ELSE IF child.kind = "nolaunch"
    THEN { [threw |-> FALSE, status |-> Null, stdout |-> Null, stderr |-> Null] }
    ELSE { [threw |-> FALSE,
            status |-> IF child.kind = "exit" THEN Some(child.code) ELSE Null,
            stdout |-> Some(child.out), stderr |-> Some(child.err)] }

\* Gio.Subprocess of GJS: an error of new, wait or communicate_utf8 is
\* thrown, so wait and communicate_utf8 return true whenever they return;
\* get_exit_status of a child that did not exit normally is undefined.
GioThrew ==
    [threw |-> TRUE, wait |-> FALSE, status |-> 0, communicate |-> FALSE,
     stdout |-> <<>>, stderr |-> <<>>]

GioSubprocess(arg, child) ==
    IF arg # "argv" \/ child.kind = "nolaunch" THEN { GioThrew }
    ELSE { [threw |-> FALSE, wait |-> TRUE, status |-> c, communicate |-> TRUE,
            stdout |-> child.out, stderr |-> child.err] :
           c \in IF child.kind = "exit" THEN {child.code} ELSE SyncCodes }

\* oResult.status == 0 (loose equality: null == 0 is false).
LooseEqualsZero(v) == v # Null /\ v[1] = 0

\* What a call does: it throws or returns value, after console.error or not.
Caught(aResult) == [threw |-> FALSE, logged |-> TRUE, value |-> aResult]
Returns(aResult) == [threw |-> FALSE, logged |-> FALSE, value |-> aResult]
Throws == [threw |-> TRUE, logged |-> FALSE, value |-> <<>>]

\* execCommandSync of the Node.js variant.
ExecCommandSyncNode_NoTry(arg, oResult) ==
    IF arg = "undefined" \/ oResult.threw
    THEN Throws
    ELSE Returns(<< LooseEqualsZero(oResult.status), oResult.status,
                    oResult.stdout, oResult.stderr >>)

ExecCommandSyncNode(arg, oResult) ==
    LET aResult == DefaultResult
    IN  IF arg = "undefined" \/ oResult.threw
        THEN Caught(aResult)
        ELSE LET bResult == LooseEqualsZero(oResult.status)
             IN  Returns(<< bResult, oResult.status, oResult.stdout, oResult.stderr >>)

\* execCommandSync of the GJS variant.
ExecCommandSyncGjs(oSubprocess) ==
    LET aResult == DefaultResult
    IN  IF oSubprocess.threw
        THEN Caught(aResult)
        ELSE IF oSubprocess.wait
        THEN LET bResult == oSubprocess.communicate
             IN  IF bResult
                 THEN Returns(<< bResult, Some(oSubprocess.status),
                                 Some(Trim(oSubprocess.stdout)),
                                 Some(Trim(oSubprocess.stderr)) >>)
                 ELSE Returns(aResult)
        ELSE Returns(aResult)

SyncInputs ==
    UNION { { [engine |-> "node", arg |-> ac[1], child |-> ac[2], api |-> x,
               ret |-> Null] : x \in SpawnSync(ac[1], ac[2]) }
            \cup
            { [engine |-> "gjs", arg |-> ac[1], child |-> ac[2], api |-> x,
               ret |-> Null] : x \in GioSubprocess(ac[1], ac[2]) } :
            ac \in SyncCases }

NoSync ==
    [engine |-> "none", arg |-> "argv", child |-> NoProcess, api |-> Null,
     ret |-> Null]

\* ------------------------------------------------------------ splitString
\* An argument is a string (its characters) or a value of another type.
Str(chars) == [isString |-> TRUE, chars |-> chars]
NotAString == [isString |-> FALSE, chars |-> <<>>]

\* String.prototype.indexOf of a character: the first position, counted
\* from 0, or -1.
IndexOf(sText, c) ==
    IF \E i \in 1..Len(sText) : sText[i] = c
    THEN (CHOOSE i \in 1..Len(sText) :
              sText[i] = c /\ \A j \in 1..(i - 1) : sText[j] # c) - 1
    ELSE 0 - 1

\* String.prototype.slice (iFrom, iTo) and slice (iFrom), positions from 0.
Slice(sText, iFrom, iTo) == SubSeq(sText, iFrom + 1, iTo)
SliceFrom(sText, iFrom) == SubSeq(sText, iFrom + 1, Len(sText))

StartsWith(sText, c) == sText # <<>> /\ sText[1] = c

\* while (sText.startsWith (cSeparator)) sText = sText.slice (1);
RECURSIVE RemoveConsecutives(_, _)
RemoveConsecutives(sText, c) ==
    IF StartsWith(sText, c) THEN RemoveConsecutives(SliceFrom(sText, 1), c)
    ELSE sText

\* The loop while (sText.length > 0) of splitString, from array a.
RECURSIVE SplitLoop_Direct(_, _, _)
SplitLoop_Direct(a, sText, c) ==
    IF Len(sText) > 0
    THEN LET i == IndexOf(sText, c)
         IN  IF i >= 0
             THEN SplitLoop_Direct(Append(a, Slice(sText, 0, i)),
                                   SliceFrom(sText, i + 1), c)
             ELSE SplitLoop_Direct(Append(a, sText), <<>>, c)
    ELSE a

RECURSIVE SplitLoop(_, _, _)
SplitLoop(a, sText, c) ==
    IF Len(sText) > 0
    THEN LET i == IndexOf(sText, c)
         IN  IF i >= 0
             THEN SplitLoop(Append(a, Slice(sText, 0, i)),
                            RemoveConsecutives(SliceFrom(sText, i + 1), c), c)
             ELSE SplitLoop(Append(a, sText), <<>>, c)
    ELSE a

SplitString(sText, cSeparator) ==
    IF sText.isString /\ sText.chars # <<>>
    THEN IF cSeparator.isString /\ cSeparator.chars # <<>>
                                /\ Len(cSeparator.chars) = 1
         THEN SplitLoop(<<>>, sText.chars, cSeparator.chars[1])
         ELSE << sText.chars >>
    ELSE <<>>

\* The arguments: texts of up to MaxTextLen characters over "a" and ",",
\* and the separators ",", "", ",," ; or values that are not strings.
MaxTextLen == 4
SplitChars == {"a", ","}
SplitTexts == UNION { [1..n -> SplitChars] : n \in 0..MaxTextLen }
SplitSeparators == { << "," >>, <<>>, << ",", "," >> }

SplitInputs ==
    [text : { Str(t) : t \in SplitTexts } \cup {NotAString},
     sep  : { Str(c) : c \in SplitSeparators } \cup {NotAString},
     ret  : {Null}]

NoSplit == [text |-> NotAString, sep |-> NotAString, ret |-> Null]

\* ------------------------------------------------------- several executors
\* The Executor objects made by execCommandAsync, each with its own consumer
\* and its own child.
NExecutors == 2
Executors == 1..NExecutors
Nobody == 0

\* new Executor (): the field initialisers.
NewExecutor ==
    [bRunning |-> FALSE, iExitStatus |-> Null,
     aStdoutBuffer |-> <<>>, aStderrBuffer |-> <<>>,
     sStdoutChunk |-> <<>>, sStderrChunk |-> <<>>,
     iStdoutIndex |-> 0, iStderrIndex |-> 0,
     fnOutputResolve |-> NoFn, fnOutputReject |-> NoFn]

\* No child yet; out and err are the text the child has still to write,
\* wout and werr the text its data events have delivered.
NoKid ==
    [kind |-> "none", phase |-> "none", out |-> <<>>, err |-> <<>>,
     wout |-> <<>>, werr |-> <<>>]

InitTwo ==
    /\ heap = [e \in Executors |-> NewExecutor]
    /\ kids = [e \in Executors |-> NoKid]
    /\ cpc = [e \in Executors |-> "idle"]
    /\ cstream = [e \in Executors |-> "none"]
    /\ actor = Nobody

\* ------------------------------------------------------------------- Init
InitExecutor ==
    /\ bRunning = FALSE
    /\ iExitStatus = <<>>
    /\ aStdoutBuffer = <<>>
    /\ aStderrBuffer = <<>>
    /\ sStdoutChunk = <<>>
    /\ sStderrChunk = <<>>
    /\ iStdoutIndex = 0
    /\ iStderrIndex = 0
    /\ fnOutputResolve = NoFn
    /\ fnOutputReject = NoFn
    /\ procs = <<>>
    /\ runs = 0
    /\ stale = 0
    /\ threw = FALSE
    /\ pc = [r \in Readers |-> "idle"]
    /\ rstream = [r \in Readers |-> "none"]
    /\ console = 0
    /\ written = [s \in Streams |-> <<>>]
    /\ results = [s \in Streams |-> <<>>]
    /\ lastError = [fired |-> FALSE, running |-> FALSE, waiting |-> {},
                    woke |-> {}, logged |-> FALSE]
    /\ afterError = "none"
    /\ overlap = FALSE
    /\ seen = {}
    /\ command = "none"

Init ==
    /\ InitExecutor
    /\ sync = NoSync
    /\ split = NoSplit
    /\ InitTwo

\* ---------------------------------------------------------------- execute
\* The commands execute() is called with: one that starts and writes the
\* given texts, one whose executable does not exist, and one the platform
\* spawn call rejects synchronously (an empty array).
Commands ==
    { [kind |-> "ok", out |-> c.out, err |-> c.err] : c \in Children }
    \cup { [kind |-> "enoent", out |-> <<>>, err |-> <<>>],
           [kind |-> "invalid", out |-> <<>>, err |-> <<>>] }

\* SubProcess.spawn throws on a command that names no executable; a failure
\* to launch the executable is emitted later as an error event.
SpawnThrows_Launch(cmd) == cmd.kind \in {"invalid", "enoent"}

SpawnThrows(cmd) == cmd.kind = "invalid"

\* Mutant: execute starts the process without resetting the fields of the
\* previous run.
Execute_NoReset(cmd) ==
    /\ runs < MaxRuns
    /\ bRunning' = TRUE
    /\ runs' = runs + 1
    /\ command' = cmd.kind
    /\ IF SpawnThrows(cmd)
       THEN /\ threw' = TRUE
            /\ procs' = procs
       ELSE /\ threw' = FALSE
            /\ procs' = Append(procs, [kind |-> cmd.kind, phase |-> "spawned",
                                       run |-> runs + 1,
                                       out |-> cmd.out, err |-> cmd.err])
    /\ written' = [s \in Streams |-> <<>>]
    /\ results' = [s \in Streams |-> <<>>]
    /\ afterError' = "none"
    /\ seen' = {}
    /\ UNCHANGED callVars
    /\ UNCHANGED << iExitStatus, aStdoutBuffer, aStderrBuffer, sStdoutChunk,
                    sStderrChunk, iStdoutIndex, iStderrIndex >>
    /\ UNCHANGED << fnOutputResolve, fnOutputReject, pc, rstream, console,
                    stale, lastError, overlap >>

Execute(cmd) ==
    /\ runs < MaxRuns
    /\ bRunning' = TRUE
    /\ iExitStatus' = <<>>
    /\ aStdoutBuffer' = <<>>
    /\ aStderrBuffer' = <<>>
    /\ sStdoutChunk' = <<>>
    /\ sStderrChunk' = <<>>
    /\ iStdoutIndex' = 0
    /\ iStderrIndex' = 0
    /\ runs' = runs + 1
    /\ command' = cmd.kind
    /\ IF SpawnThrows(cmd)
       THEN /\ threw' = TRUE
            /\ procs' = procs
       ELSE /\ threw' = FALSE
            /\ procs' = Append(procs, [kind |-> cmd.kind, phase |-> "spawned",
                                       run |-> runs + 1,
                                       out |-> cmd.out, err |-> cmd.err])
    /\ written' = [s \in Streams |-> <<>>]
    /\ results' = [s \in Streams |-> <<>>]
    /\ afterError' = "none"
    /\ seen' = {}
    /\ UNCHANGED callVars
    /\ UNCHANGED << fnOutputResolve, fnOutputReject, pc, rstream, console,
                    stale, lastError, overlap >>

\* ------------------------------------------------------------ data events
\* Mutant: the stdout handler pushes its lines into both buffers.
StdoutData_Shared(p, n) ==
    /\ DeliverIO(p)
    /\ procs[p].phase = "spawned"
    /\ n <= Len(procs[p].out)
    /\ LET sChunk == SubSeq(procs[p].out, 1, n)
           aLines == Split(sStdoutChunk \o sChunk)
       IN  /\ sStdoutChunk' = PopValue(aLines)
           /\ aStdoutBuffer' = Push(aStdoutBuffer, PopRest(aLines))
           /\ aStderrBuffer' = Push(aStderrBuffer, PopRest(aLines))
           /\ written' = [written EXCEPT !["stdout"] = @ \o sChunk]
           /\ procs' = [procs EXCEPT ![p].out = SubSeq(@, n + 1, Len(@))]
    /\ pc' = Settle(fnOutputResolve, pc, "woken")
    /\ fnOutputResolve' = IF fnOutputResolve # NoFn
                          THEN ClearSlot(fnOutputResolve) ELSE fnOutputResolve
    /\ UNCHANGED auxVars
    /\ UNCHANGED seen
    /\ UNCHANGED << bRunning, iExitStatus, sStderrChunk,
                    iStdoutIndex, iStderrIndex, fnOutputReject, runs, threw,
                    rstream, console, results, lastError, afterError, overlap >>

StdoutData(p, n) ==
    /\ DeliverIO(p)
    /\ procs[p].phase = "spawned"
    /\ n <= Len(procs[p].out)
    /\ LET sChunk == SubSeq(procs[p].out, 1, n)
           aLines == Split(sStdoutChunk \o sChunk)
       IN  /\ sStdoutChunk' = PopValue(aLines)
           /\ aStdoutBuffer' = Push(aStdoutBuffer, PopRest(aLines))
           /\ written' = [written EXCEPT !["stdout"] = @ \o sChunk]
           /\ procs' = [procs EXCEPT ![p].out = SubSeq(@, n + 1, Len(@))]
    /\ pc' = Settle(fnOutputResolve, pc, "woken")
    /\ fnOutputResolve' = IF fnOutputResolve # NoFn
                          THEN ClearSlot(fnOutputResolve) ELSE fnOutputResolve
    /\ UNCHANGED auxVars
    /\ UNCHANGED seen
    /\ UNCHANGED << bRunning, iExitStatus, aStderrBuffer, sStderrChunk,
                    iStdoutIndex, iStderrIndex, fnOutputReject, runs, threw,
                    rstream, console, results, lastError, afterError, overlap >>

StderrData(p, n) ==
    /\ DeliverIO(p)
    /\ procs[p].phase = "spawned"
    /\ n <= Len(procs[p].err)
    /\ LET sChunk == SubSeq(procs[p].err, 1, n)
           aLines == Split(sStderrChunk \o sChunk)
       IN  /\ sStderrChunk' = PopValue(aLines)
           /\ aStderrBuffer' = Push(aStderrBuffer, PopRest(aLines))
           /\ written' = [written EXCEPT !["stderr"] = @ \o sChunk]
           /\ procs' = [procs EXCEPT ![p].err = SubSeq(@, n + 1, Len(@))]
    /\ UNCHANGED auxVars
    /\ UNCHANGED seen
    /\ UNCHANGED << bRunning, iExitStatus, aStdoutBuffer, sStdoutChunk,
                    iStdoutIndex, iStderrIndex, fnOutputResolve, fnOutputReject,
                    runs, threw, pc, rstream, console, results, lastError,
                    afterError, overlap >>

\* ------------------------------------------------------------ close event
\* The exit code a close event of process p may carry: the exit code of a
\* child that ran, the negated errno of a child that could not be spawned.
CloseCodes(p) == IF procs[p].kind = "ok" THEN ExitCodes ELSE {ENOENT}

\* close follows the end of both streams (a child that ran) or the error
\* event (a child that could not be spawned).
CanClose(p) ==
    IF procs[p].kind = "ok"
    THEN procs[p].phase = "spawned" /\ procs[p].out = <<>> /\ procs[p].err = <<>>
    ELSE procs[p].phase = "errored"

Close(p, iExitCode) ==
    /\ DeliverIO(p)
    /\ CanClose(p)
    /\ iExitCode \in CloseCodes(p)
    /\ bRunning' = FALSE
    /\ iExitStatus' = << iExitCode >>
    /\ pc' = Settle(fnOutputResolve, pc, "woken")
    /\ fnOutputResolve' = IF fnOutputResolve # NoFn
                          THEN ClearSlot(fnOutputResolve) ELSE fnOutputResolve
    /\ procs' = [procs EXCEPT ![p].phase = "closed"]
    /\ UNCHANGED auxVars
    /\ UNCHANGED seen
    /\ UNCHANGED << aStdoutBuffer, aStderrBuffer, sStdoutChunk, sStderrChunk,
                    iStdoutIndex, iStderrIndex, fnOutputReject, runs, threw,
                    rstream, console, written, results, lastError, afterError,
                    overlap >>

\* ------------------------------------------------------------ error event
\* The executor never kills the child, sends it nothing and passes no abort
\* signal, so the only error event is the one of a failed spawn.
Error(p) ==
    /\ Deliver(p)
    /\ procs[p].kind = "enoent"
    /\ procs[p].phase = "spawned"
    /\ bRunning' = FALSE
    /\ IF fnOutputReject # NoFn
       THEN /\ pc' = Settle(fnOutputReject, pc, "rejected")
            /\ fnOutputReject' = ClearSlot(fnOutputReject)
            /\ console' = console
       ELSE /\ console' = console + 1
            /\ UNCHANGED << pc, fnOutputReject >>
    /\ procs' = [procs EXCEPT ![p].phase = "errored"]
    /\ lastError' = [fired   |-> TRUE,
                     running |-> bRunning,
                     waiting |-> { r \in Readers : pc[r] = "suspended" },
                     woke    |-> { r \in Readers : pc[r] = "suspended"
                                                   /\ pc'[r] = "rejected" },
                     logged  |-> console' # console]
    /\ afterError' = IF \A r \in Readers : pc[r] # "suspended"
                     THEN "pending" ELSE afterError
    /\ UNCHANGED auxVars
    /\ UNCHANGED seen
    /\ UNCHANGED << iExitStatus, aStdoutBuffer, aStderrBuffer, sStdoutChunk,
                    sStderrChunk, iStdoutIndex, iStderrIndex, fnOutputResolve,
                    runs, threw, rstream, written, results, overlap >>

\* ------------------------------------------------------ next-line methods
\* What a pass of a next-line method of reader r that ends in step has met:
\* "again": a woken caller found nothing to return and suspended again;
\* "stopped": a woken caller found the executor not running;
\* "late": a line was returned while the executor was not running.
Met(r, step) ==
    (IF pc[r] = "woken" /\ step = "wait" THEN {"again"} ELSE {})
        \cup (IF pc[r] = "woken" /\ ~bRunning THEN {"stopped"} ELSE {})
        \cup (IF step = "line" /\ ~bRunning THEN {"late"} ELSE {})

\* One pass of getNextStdoutLine from the loop test to the next await or
\* return, run by reader r (at the call, or when its promise was resolved).
StdoutBody(r) ==
    LET step == LoopStep(bRunning, iStdoutIndex, aStdoutBuffer)
    IN  /\ rstream' = [rstream EXCEPT ![r] = IF step = "wait" THEN "stdout" ELSE "none"]
        /\ IF step = "wait"
           THEN /\ fnOutputResolve' = r
                /\ fnOutputReject' = r
                /\ pc' = [pc EXCEPT ![r] = "suspended"]
                /\ UNCHANGED << iStdoutIndex, results >>
           ELSE /\ pc' = [pc EXCEPT ![r] = "idle"]
                /\ UNCHANGED << fnOutputResolve, fnOutputReject >>
                /\ IF step = "eof"
                   THEN /\ results' = [results EXCEPT !["stdout"] = Append(@, Eof)]
                        /\ UNCHANGED iStdoutIndex
                   ELSE /\ results' = [results EXCEPT !["stdout"] =
                               Append(@, Line(ReadAt(aStdoutBuffer, iStdoutIndex)))]
                        /\ iStdoutIndex' = Advance(iStdoutIndex)
        /\ afterError' = IF afterError = "pending" THEN step ELSE afterError
        /\ UNCHANGED auxVars
        /\ UNCHANGED << bRunning, iExitStatus, aStdoutBuffer, aStderrBuffer,
                        sStdoutChunk, sStderrChunk, iStderrIndex, procs, runs,
                        stale, threw, console, written, lastError >>

StderrBody(r) ==
    LET step == LoopStep(bRunning, iStderrIndex, aStderrBuffer)
    IN  /\ rstream' = [rstream EXCEPT ![r] = IF step = "wait" THEN "stderr" ELSE "none"]
        /\ IF step = "wait"
           THEN /\ fnOutputResolve' = r
                /\ fnOutputReject' = r
                /\ pc' = [pc EXCEPT ![r] = "suspended"]
                /\ UNCHANGED << iStderrIndex, results >>
           ELSE /\ pc' = [pc EXCEPT ![r] = "idle"]
                /\ UNCHANGED << fnOutputResolve, fnOutputReject >>
                /\ IF step = "eof"
                   THEN /\ results' = [results EXCEPT !["stderr"] = Append(@, Eof)]
                        /\ UNCHANGED iStderrIndex
                   ELSE /\ results' = [results EXCEPT !["stderr"] =
                               Append(@, Line(ReadAt(aStderrBuffer, iStderrIndex)))]
                        /\ iStderrIndex' = Advance(iStderrIndex)
        /\ afterError' = IF afterError = "pending" THEN step ELSE afterError
        /\ UNCHANGED auxVars
        /\ UNCHANGED << bRunning, iExitStatus, aStdoutBuffer, aStderrBuffer,
                        sStdoutChunk, sStderrChunk, iStdoutIndex, procs, runs,
                        stale, threw, console, written, lastError >>

\* A reader is the slot of one call in flight: a new call takes the lowest
\* free slot.
CanCall(r, s) ==
    /\ pc[r] = "idle"
    /\ \A q \in Readers : q < r => pc[q] # "idle"
    /\ Len(results[s]) + Cardinality(Outstanding(s)) < MaxReads

Overlaps(r) == \E q \in Readers \ {r} : pc[q] # "idle"

CallStdout(r) ==
    /\ CanCall(r, "stdout")
    /\ overlap' = (overlap \/ Overlaps(r))
    /\ StdoutBody(r)
    /\ UNCHANGED seen

CallStderr(r) ==
    /\ CanCall(r, "stderr")
    /\ overlap' = (overlap \/ Overlaps(r))
    /\ StderrBody(r)
    /\ UNCHANGED seen

\* The continuation of a reader whose promise was resolved.
ResumeStdout(r) ==
    /\ pc[r] = "woken"
    /\ rstream[r] = "stdout"
    /\ UNCHANGED overlap
    /\ StdoutBody(r)
    /\ UNCHANGED seen

ResumeStderr(r) ==
    /\ pc[r] = "woken"
    /\ rstream[r] = "stderr"
    /\ UNCHANGED overlap
    /\ StderrBody(r)
    /\ UNCHANGED seen

\* The continuation of a reader whose promise was rejected: the await
\* throws and the call rejects with the error.
Rejected(r) ==
    /\ pc[r] = "rejected"
    /\ pc' = [pc EXCEPT ![r] = "idle"]
    /\ results' = [results EXCEPT ![rstream[r]] = Append(@, Failure)]
    /\ rstream' = [rstream EXCEPT ![r] = "none"]
    /\ UNCHANGED auxVars
    /\ UNCHANGED seen
    /\ UNCHANGED << progVars, procs, runs, stale, threw, console, written,
                    lastError, afterError, overlap >>

\* ------------------------------------------------------------------- Next
Next ==
    \/ \E cmd \in Commands : Execute(cmd)
    \/ \E p \in 1..MaxRuns, n \in 1..MaxChunkLen : StdoutData(p, n)
    \/ \E p \in 1..MaxRuns, n \in 1..MaxChunkLen : StderrData(p, n)
    \/ \E p \in 1..MaxRuns, c \in ExitCodes \cup {ENOENT} : Close(p, c)
    \/ \E p \in 1..MaxRuns : Error(p)
    \/ \E r \in Readers : CallStdout(r)
    \/ \E r \in Readers : CallStderr(r)
    \/ \E r \in Readers : ResumeStdout(r)
    \/ \E r \in Readers : ResumeStderr(r)
    \/ \E r \in Readers : Rejected(r)

Spec == Init /\ [][Next]_vars

\* Fairness: the event loop delivers every event that is due and runs every
\* queued continuation; consumers are free to call or not.
Events(p) ==
    \/ \E n \in 1..MaxChunkLen : StdoutData(p, n)
    \/ \E n \in 1..MaxChunkLen : StderrData(p, n)
    \/ \E c \in ExitCodes \cup {ENOENT} : Close(p, c)
    \/ Error(p)

Continuations(r) == ResumeStdout(r) \/ ResumeStderr(r) \/ Rejected(r)

\* The behaviours with at most one next-line call outstanding at any time,
\* under that fairness.
SingleCallStdout(r) == CallStdout(r) /\ ~overlap'

SingleCallStderr(r) == CallStderr(r) /\ ~overlap'

SingleNext ==
    \/ \E cmd \in Commands : Execute(cmd)
    \/ \E p \in 1..MaxRuns, n \in 1..MaxChunkLen : StdoutData(p, n)
    \/ \E p \in 1..MaxRuns, n \in 1..MaxChunkLen : StderrData(p, n)
    \/ \E p \in 1..MaxRuns, c \in ExitCodes \cup {ENOENT} : Close(p, c)
    \/ \E p \in 1..MaxRuns : Error(p)
    \/ \E r \in Readers : SingleCallStdout(r)
    \/ \E r \in Readers : SingleCallStderr(r)
    \/ \E r \in Readers : ResumeStdout(r)
    \/ \E r \in Readers : ResumeStderr(r)
    \/ \E r \in Readers : Rejected(r)

SingleConsumerSpec ==
    /\ Init
    /\ [][SingleNext]_vars
    /\ \A p \in 1..MaxRuns : WF_vars(Events(p))
    /\ \A r \in Readers : WF_vars(Continuations(r))

\* The same behaviours with the history variable seen recorded: each pass
\* of a next-line method adds what it met.
StepOf(s) ==
    IF s = "stdout" THEN LoopStep(bRunning, iStdoutIndex, aStdoutBuffer)
    ELSE LoopStep(bRunning, iStderrIndex, aStderrBuffer)

HistoryCallStdout(r) ==
    /\ CanCall(r, "stdout")
    /\ overlap' = (overlap \/ Overlaps(r))
    /\ StdoutBody(r)
    /\ seen' = seen \cup Met(r, StepOf("stdout"))

HistoryCallStderr(r) ==
    /\ CanCall(r, "stderr")
    /\ overlap' = (overlap \/ Overlaps(r))
    /\ StderrBody(r)
    /\ seen' = seen \cup Met(r, StepOf("stderr"))

\* Mutant: the continuation trusts the wake-up and returns without testing
\* the loop condition again.
HistoryResumeStdout_Trusting(r) ==
    /\ pc[r] = "woken"
    /\ rstream[r] = "stdout"
    /\ pc' = [pc EXCEPT ![r] = "idle"]
    /\ rstream' = [rstream EXCEPT ![r] = "none"]
    /\ IF NoUnread(iStdoutIndex, aStdoutBuffer)
       THEN /\ results' = [results EXCEPT !["stdout"] = Append(@, Eof)]
            /\ UNCHANGED iStdoutIndex
       ELSE /\ results' = [results EXCEPT !["stdout"] =
                   Append(@, Line(ReadAt(aStdoutBuffer, iStdoutIndex)))]
            /\ iStdoutIndex' = Advance(iStdoutIndex)
    /\ UNCHANGED << fnOutputResolve, fnOutputReject, overlap, afterError, seen >>
    /\ UNCHANGED auxVars
    /\ UNCHANGED << bRunning, iExitStatus, aStdoutBuffer, aStderrBuffer,
                    sStdoutChunk, sStderrChunk, iStderrIndex, procs, runs,
                    stale, threw, console, written, lastError >>

HistoryResumeStdout(r) ==
    /\ pc[r] = "woken"
    /\ rstream[r] = "stdout"
    /\ UNCHANGED overlap
    /\ StdoutBody(r)
    /\ seen' = seen \cup Met(r, StepOf("stdout"))

HistoryResumeStderr(r) ==
    /\ pc[r] = "woken"
    /\ rstream[r] = "stderr"
    /\ UNCHANGED overlap
    /\ StderrBody(r)
    /\ seen' = seen \cup Met(r, StepOf("stderr"))

HistoryNext ==
    \/ \E cmd \in Commands : Execute(cmd)
    \/ \E p \in 1..MaxRuns, n \in 1..MaxChunkLen : StdoutData(p, n)
    \/ \E p \in 1..MaxRuns, n \in 1..MaxChunkLen : StderrData(p, n)
    \/ \E p \in 1..MaxRuns, c \in ExitCodes \cup {ENOENT} : Close(p, c)
    \/ \E p \in 1..MaxRuns : Error(p)
    \/ \E r \in Readers : HistoryCallStdout(r)
    \/ \E r \in Readers : HistoryCallStderr(r)
    \/ \E r \in Readers : HistoryResumeStdout(r)
    \/ \E r \in Readers : HistoryResumeStderr(r)
    \/ \E r \in Readers : Rejected(r)

HistorySpec == Init /\ [][HistoryNext]_vars

\* One call of execCommandSync on inputs drawn from SyncInputs.
SyncInit ==
    /\ InitExecutor
    /\ sync \in SyncInputs
    /\ split = NoSplit
    /\ InitTwo

SyncNode ==
    /\ sync.engine = "node"
    /\ sync.ret = Null
    /\ sync' = [sync EXCEPT !.ret = Some(ExecCommandSyncNode(sync.arg, sync.api))]
    /\ UNCHANGED << progVars, envVars, obsVars, command, split, isoVars >>

SyncGjs ==
    /\ sync.engine = "gjs"
    /\ sync.ret = Null
    /\ sync' = [sync EXCEPT !.ret = Some(ExecCommandSyncGjs(sync.api))]
    /\ UNCHANGED << progVars, envVars, obsVars, command, split, isoVars >>

SyncNext == SyncNode \/ SyncGjs

SyncSpec == SyncInit /\ [][SyncNext]_vars

\* One call of splitString on arguments drawn from SplitInputs.
SplitInit ==
    /\ InitExecutor
    /\ sync = NoSync
    /\ split \in SplitInputs
    /\ InitTwo

SplitCall ==
    /\ split.ret = Null
    /\ split' = [split EXCEPT !.ret = Some(SplitString(split.text, split.sep))]
    /\ UNCHANGED << progVars, envVars, obsVars, command, sync, isoVars >>

SplitSpec == SplitInit /\ [][SplitCall]_vars

\* ------------------------------------------------------------ observations
Buffer(s) == IF s = "stdout" THEN aStdoutBuffer ELSE aStderrBuffer
Partial(s) == IF s = "stdout" THEN sStdoutChunk ELSE sStderrChunk
Cursor(s) == IF s = "stdout" THEN iStdoutIndex ELSE iStderrIndex

\* The separators of a text T, and its segments: segment k lies between the
\* (k-1)-th and the k-th separator (the ends of T standing for separator 0
\* and separator SepCount(T) + 1).
SepCount(T) == Cardinality({ i \in 1..Len(T) : T[i] = NL })

SepPos(T, k) ==
    IF k = 0 THEN 0
    ELSE IF k > SepCount(T) THEN Len(T) + 1
    ELSE CHOOSE i \in 1..Len(T) :
             T[i] = NL /\ Cardinality({ j \in 1..i : T[j] = NL }) = k

Segment(T, k) == SubSeq(T, SepPos(T, k - 1) + 1, SepPos(T, k) - 1)

\* The lines completed by a text: its segments that end with a separator.
Completed(T) == [k \in 1..SepCount(T) |-> Segment(T, k)]

\* The non-null values the calls on stream s returned in this run, in order.
RECURSIVE LinesOf(_)
LinesOf(rs) ==
    IF rs = <<>> THEN <<>>
    ELSE (IF rs[1].kind = "line" THEN << rs[1].line >> ELSE <<>>) \o LinesOf(Tail(rs))

Returned(s) == LinesOf(results[s])

IsPrefix(a, b) == Len(a) <= Len(b) /\ a = SubSeq(b, 1, Len(a))

\* The child started by the latest execute() has been closed.
ChildClosed ==
    /\ procs # <<>>
    /\ ~IsStale(Len(procs))
    /\ procs[Len(procs)].phase = "closed"

\* --------------------------------------------- two executors side by side
\* Mutant: the fields are shared by all instances (static fields).
This_Static(e) == 1

\* "this" in the methods and handlers of executor e: the object whose
\* private fields this.#... names.
This(e) == e

Me(e) == heap[This(e)]

\* The commands of the two executors.
PairChild == [out |-> << "a", NL, "b" >>, err |-> << "e", NL >>]

PairCommands ==
    { [kind |-> "ok", out |-> PairChild.out, err |-> PairChild.err],
      [kind |-> "enoent", out |-> <<>>, err |-> <<>>],
      [kind |-> "invalid", out |-> <<>>, err |-> <<>>] }

\* The assignments at the head of execute().
Executed(f) ==
    [f EXCEPT !.bRunning = TRUE, !.iExitStatus = Null,
              !.aStdoutBuffer = <<>>, !.aStderrBuffer = <<>>,
              !.sStdoutChunk = <<>>, !.sStderrChunk = <<>>,
              !.iStdoutIndex = 0, !.iStderrIndex = 0]

\* The notify block of the stdout data and close handlers.
Notified(f) ==
    [f EXCEPT !.fnOutputResolve = IF @ # NoFn THEN ClearSlot(@) ELSE @]

\* The handlers, as the change they make to the fields of "this".
OnStdoutData(f, sChunk) ==
    LET aLines == Split(f.sStdoutChunk \o sChunk)
    IN  Notified([f EXCEPT !.sStdoutChunk = PopValue(aLines),
                           !.aStdoutBuffer = Push(@, PopRest(aLines))])

OnStderrData(f, sChunk) ==
    LET aLines == Split(f.sStderrChunk \o sChunk)
    IN  [f EXCEPT !.sStderrChunk = PopValue(aLines),
                  !.aStderrBuffer = Push(@, PopRest(aLines))]

OnClose(f, iExitCode) ==
    Notified([f EXCEPT !.bRunning = FALSE, !.iExitStatus = Some(iExitCode)])

OnError(f) ==
    [f EXCEPT !.bRunning = FALSE,
              !.fnOutputReject = IF @ # NoFn THEN ClearSlot(@) ELSE @]

\* execCommandAsync (aCommand) for executor e.
PairExecute(e, cmd) ==
    /\ kids[e].phase = "none"
    /\ heap' = [heap EXCEPT ![This(e)] = Executed(@)]
    /\ kids' = [kids EXCEPT ![e] =
                   IF SpawnThrows(cmd)
                   THEN [@ EXCEPT !.phase = "threw"]
                   ELSE [kind |-> cmd.kind, phase |-> "spawned",
                         out |-> cmd.out, err |-> cmd.err,
                         wout |-> <<>>, werr |-> <<>>]]
    /\ actor' = e
    /\ UNCHANGED soloVars
    /\ UNCHANGED << cpc, cstream >>

PairDrained == \A e \in Executors : cpc[e] \in {"idle", "suspended"}

PairErrorDue ==
    \E e \in Executors : kids[e].kind = "enoent" /\ kids[e].phase = "spawned"

PairStdoutData(e, n) ==
    /\ PairDrained /\ ~PairErrorDue
    /\ kids[e].phase = "spawned"
    /\ n <= Len(kids[e].out)
    /\ LET sChunk == SubSeq(kids[e].out, 1, n)
       IN  /\ heap' = [heap EXCEPT ![This(e)] = OnStdoutData(@, sChunk)]
           /\ kids' = [kids EXCEPT ![e].out = SubSeq(@, n + 1, Len(@)),
                                   ![e].wout = @ \o sChunk]
    /\ cpc' = Settle(Me(e).fnOutputResolve, cpc, "woken")
    /\ actor' = e
    /\ UNCHANGED soloVars
    /\ UNCHANGED cstream

PairStderrData(e, n) ==
    /\ PairDrained /\ ~PairErrorDue
    /\ kids[e].phase = "spawned"
    /\ n <= Len(kids[e].err)
    /\ LET sChunk == SubSeq(kids[e].err, 1, n)
       IN  /\ heap' = [heap EXCEPT ![This(e)] = OnStderrData(@, sChunk)]
           /\ kids' = [kids EXCEPT ![e].err = SubSeq(@, n + 1, Len(@)),
                                   ![e].werr = @ \o sChunk]
    /\ actor' = e
    /\ UNCHANGED soloVars
    /\ UNCHANGED << cpc, cstream >>

PairClose(e, iExitCode) ==
    /\ PairDrained /\ ~PairErrorDue
    /\ IF kids[e].kind = "ok"
       THEN /\ kids[e].phase = "spawned"
            /\ kids[e].out = <<>> /\ kids[e].err = <<>>
            /\ iExitCode \in ExitCodes
       ELSE /\ kids[e].phase = "errored"
            /\ iExitCode = ENOENT
    /\ heap' = [heap EXCEPT ![This(e)] = OnClose(@, iExitCode)]
    /\ kids' = [kids EXCEPT ![e].phase = "closed"]
    /\ cpc' = Settle(Me(e).fnOutputResolve, cpc, "woken")
    /\ actor' = e
    /\ UNCHANGED soloVars
    /\ UNCHANGED cstream

PairError(e) ==
    /\ PairDrained
    /\ kids[e].kind = "enoent"
    /\ kids[e].phase = "spawned"
    /\ heap' = [heap EXCEPT ![This(e)] = OnError(@)]
    /\ kids' = [kids EXCEPT ![e].phase = "errored"]
    /\ cpc' = Settle(Me(e).fnOutputReject, cpc, "rejected")
    /\ actor' = e
    /\ UNCHANGED soloVars
    /\ UNCHANGED cstream

\* One pass of a next-line method of executor e on stream s.
PairBody(e, s) ==
    LET f == Me(e)
        iIndex == IF s = "stdout" THEN f.iStdoutIndex ELSE f.iStderrIndex
        aBuffer == IF s = "stdout" THEN f.aStdoutBuffer ELSE f.aStderrBuffer
        step == LoopStep(f.bRunning, iIndex, aBuffer)
    IN  /\ cpc' = [cpc EXCEPT ![e] = IF step = "wait" THEN "suspended" ELSE "idle"]
        /\ cstream' = [cstream EXCEPT ![e] = IF step = "wait" THEN s ELSE "none"]
        /\ heap' = IF step = "wait"
                   THEN [heap EXCEPT ![This(e)].fnOutputResolve = e,
                                     ![This(e)].fnOutputReject = e]
                   ELSE IF step = "eof" THEN heap
                   ELSE IF s = "stdout"
                   THEN [heap EXCEPT ![This(e)].iStdoutIndex = Advance(@)]
                   ELSE [heap EXCEPT ![This(e)].iStderrIndex = Advance(@)]
        /\ actor' = e
        /\ UNCHANGED soloVars
        /\ UNCHANGED kids

PairCall(e, s) == cpc[e] = "idle" /\ PairBody(e, s)

PairResume(e) == cpc[e] = "woken" /\ PairBody(e, cstream[e])

PairRejected(e) ==
    /\ cpc[e] = "rejected"
    /\ cpc' = [cpc EXCEPT ![e] = "idle"]
    /\ cstream' = [cstream EXCEPT ![e] = "none"]
    /\ actor' = e
    /\ UNCHANGED soloVars
    /\ UNCHANGED << heap, kids >>

PairInit ==
    /\ InitExecutor
    /\ sync = NoSync
    /\ split = NoSplit
    /\ InitTwo

PairNext ==
    \/ \E e \in Executors, cmd \in PairCommands : PairExecute(e, cmd)
    \/ \E e \in Executors, n \in 1..MaxChunkLen : PairStdoutData(e, n)
    \/ \E e \in Executors, n \in 1..MaxChunkLen : PairStderrData(e, n)
    \/ \E e \in Executors, c \in ExitCodes \cup {ENOENT} : PairClose(e, c)
    \/ \E e \in Executors : PairError(e)
    \/ \E e \in Executors, s \in Streams : PairCall(e, s)
    \/ \E e \in Executors : PairResume(e)
    \/ \E e \in Executors : PairRejected(e)

PairSpec == PairInit /\ [][PairNext]_vars

\* ------------------------------------------------------------------ claims

\* C1: for a single consumer, the lines returned on a stream are a prefix of
\* the lines completed on that stream, in arrival order: none is skipped or
\* reordered.
C1_Fifo ==
    ~overlap => \A s \in Streams : IsPrefix(Returned(s), Completed(written[s]))

\* C1 witness: one consumer at a time has read both lines of the printf
\* child while the child was still running.
C1_Witness ==
    /\ ~overlap
    /\ bRunning
    /\ written["stdout"] = Printf
    /\ Returned("stdout") = << << "a" >>, << "b" >> >>

\* C2: however the text written to a stream is cut into chunks, the line
\* buffer holds exactly the separator-terminated segments of the text, in
\* order, and the pending partial is the segment after the last separator.
C2_ChunkingInvariance ==
    \A s \in Streams :
        /\ Buffer(s) = Completed(written[s])
        /\ Partial(s) = Segment(written[s], SepCount(written[s]) + 1)

\* C2 witness: the text "ab", separator, separator arrived in chunks of at
\* most MaxChunkLen characters and both lines (the second one empty) are in
\* the buffer.
C2_Witness ==
    /\ written["stdout"] = << "a", "b", NL, NL >>
    /\ aStdoutBuffer = << << "a", "b" >>, <<>> >>
    /\ sStdoutChunk = <<>>
    /\ written["stderr"] = << "e", NL, "f" >>
    /\ sStderrChunk = << "f" >>

\* A child that can still deliver its close event exists.
CloseDue ==
    \E p \in Procs : procs[p].phase # "closed" /\ Deliverable(p)

\* The executor is marked running although no child is left to emit close
\* (the spawn call threw, or the events of the child are no longer
\* delivered).
NoChild == bRunning /\ ~CloseDue

\* C3: with at most one next-line call outstanding at any time and a child
\* that goes on to emit close, a suspended call eventually settles.
C3_SingleConsumerSettles ==
    \A r \in Readers : (pc[r] = "suspended") ~> (pc[r] = "idle" \/ NoChild)

\* C3 witness: a lone consumer that had to suspend on stderr has received
\* end-of-stream after the child closed.
C3_Witness ==
    /\ ~overlap
    /\ ChildClosed
    /\ written["stderr"] = << "e", NL, "f" >>
    /\ results["stderr"] = << Line(<< "e" >>), Eof >>
    /\ results["stdout"] = <<>>
    /\ fnOutputReject # NoFn

\* The executor holds the wake-up handle of reader r.
Held(r) == fnOutputResolve = r

\* C4: two callers suspended on the same stream are both held by the
\* executor (the second call never displaces the first caller's handle).
C4_BothHeld ==
    \A r1, r2 \in Readers :
        (r1 # r2 /\ pc[r1] = "suspended" /\ pc[r2] = "suspended"
                 /\ rstream[r1] = rstream[r2])
            => Held(r1) /\ Held(r2)

\* An event that notifies the waiters: a stdout data event or a close event.
NotifyStep ==
    \/ written'["stdout"] # written["stdout"] /\ runs' = runs
    \/ \E p \in Procs : procs[p].phase # "closed" /\ procs'[p].phase = "closed"

\* C5: every caller suspended on a stream shared with another suspended
\* caller is woken by each data-arrival or close event.
C5_AllWoken ==
    [][ NotifyStep =>
          \A r1, r2 \in Readers :
              (r1 # r2 /\ pc[r1] = "suspended" /\ pc[r2] = "suspended"
                       /\ rstream[r1] = rstream[r2])
                  => pc'[r1] = "woken" /\ pc'[r2] = "woken" ]_vars

\* C6: at an error event that finds the executor running exactly one of two
\* things happens: the suspended caller is rejected with the error, or (no
\* caller suspended) the error is reported on the console. Stated for one
\* call outstanding at a time.
C6_ErrorNeverDropped ==
    (lastError.fired /\ lastError.running /\ ~overlap) =>
        \/ lastError.waiting # {} /\ lastError.woke = lastError.waiting
                                  /\ ~lastError.logged
        \/ lastError.waiting = {} /\ lastError.woke = {} /\ lastError.logged

\* C7: the first next-line call after an error that found no waiter
\* surfaces the error: it neither returns end-of-stream nor suspends.
C7_StoredErrorSurfaced == afterError \notin {"eof", "wait"}

\* A call on stream s settles in this step.
Settles(s) == Len(results'[s]) = Len(results[s]) + 1

Last(q) == q[Len(q)]

\* C8: a call that returns (does not reject) returns end-of-stream exactly
\* when the executor is not running and the stream has no unread line at
\* its cursor.
C8_EofIff ==
    [][ \A s \in Streams :
          (Settles(s) /\ Last(results'[s]).kind # "error") =>
              ( Last(results'[s]).kind = "eof"
                  <=> (~bRunning /\ Cursor(s) >= Len(Buffer(s))) ) ]_vars

\* C8 witness: end-of-stream was returned on stdout after a line, with the
\* executor stopped and the cursor at the end of the buffer.
C8_Witness ==
    /\ ~bRunning
    /\ written["stdout"] = << "a", "b", NL, NL >>
    /\ results["stdout"] = << Line(<< "a", "b" >>), Line(<<>>), Eof >>
    /\ iStdoutIndex = Len(aStdoutBuffer)

\* The printf child was the only child, wrote all its text and closed.
PrintfDone ==
    /\ runs = 1
    /\ ChildClosed
    /\ written["stdout"] = Printf

\* C9 as claimed: the calls yield "a", "b", "c" and then end-of-stream.
C9_Original ==
    PrintfDone =>
        IsPrefix(results["stdout"],
                 << Line(<< "a" >>), Line(<< "b" >>), Line(<< "c" >>), Eof >>)

\* C9 amended: the calls yield "a", "b" and then end-of-stream; "c", which
\* no separator follows, is not returned.
C9_Amended ==
    PrintfDone =>
        \A i \in 1..Len(results["stdout"]) :
            results["stdout"][i] = IF i = 1 THEN Line(<< "a" >>)
                                   ELSE IF i = 2 THEN Line(<< "b" >>)
                                   ELSE Eof

\* C9 witness: three calls have settled on the output of the printf child.
C9_Witness ==
    /\ PrintfDone
    /\ results["stdout"] = << Line(<< "a" >>), Line(<< "b" >>), Eof >>

\* C10: after close the unterminated fragment is in no line buffer and is
\* returned by no call: the buffer holds the separator-terminated lines
\* only, and a read with the cursor past them reports end-of-stream.
C10_PartialNeverReturned ==
    ChildClosed =>
        \A s \in Streams :
            /\ Len(Buffer(s)) = SepCount(written[s])
            /\ Len(Returned(s)) <= SepCount(written[s])
            /\ \A i \in 1..Len(Returned(s)) : Returned(s)[i] = Segment(written[s], i)
            /\ Cursor(s) = SepCount(written[s])
                   => LoopStep(bRunning, Cursor(s), Buffer(s)) = "eof"

\* C10 witness: the child of a second run closed with "c" pending on
\* stdout, and the read after the two terminated lines reported
\* end-of-stream.
C10_Witness ==
    /\ ChildClosed
    /\ sStdoutChunk = << "c" >>
    /\ results["stdout"] = << Line(<< "a" >>), Line(<< "b" >>), Eof >>
    /\ runs = 2

\* C11: a call that returns a line returns the buffer entry at the cursor
\* and moves the cursor of that stream by exactly one, so that the lines
\* returned in a run are the buffer entries 1 .. cursor, each returned once;
\* also when several calls on the stream are in flight.
C11_CursorAdvancesByOne ==
    [][ \A s \in Streams :
          (Settles(s) /\ Last(results'[s]).kind = "line") =>
              /\ Cursor(s)' = Cursor(s) + 1
              /\ Last(results'[s]).line = Buffer(s)[Cursor(s) + 1]
              /\ LinesOf(results'[s]) = SubSeq(Buffer(s), 1, Cursor(s) + 1) ]_vars

\* C11 witness: two calls on stdout were in flight together in the first
\* run, and the two lines were returned once each.
C11_Witness ==
    /\ overlap
    /\ runs = 1
    /\ results["stderr"] = <<>>
    /\ \A r \in Readers : rstream[r] # "stderr"
    /\ results["stdout"] = << Line(<< "a" >>), Line(<< "b" >>) >>
    /\ iStdoutIndex = 2

\* The value returned by the execCommandSync call.
SyncValue == sync.ret[1].value

\* C12: in both variants the success flag of execCommandSync is true
\* exactly when the process was launched and exited with code 0; a process
\* that exits with code 1 and writes nothing gives (false, 1, "", "").
C12_SuccessIffExitZero ==
    sync.ret # Null =>
        /\ SyncValue[1] <=> (sync.child.kind = "exit" /\ sync.child.code = 0)
        /\ sync.child = [kind |-> "exit", code |-> 1, out |-> <<>>, err |-> <<>>]
               => SyncValue = << FALSE, Some(1), Some(<<>>), Some(<<>>) >>

\* C13: in both variants, when the process cannot be launched
\* execCommandSync returns exactly (false, -1, "", ""), whether the platform
\* call throws or returns an object with an error, a null status and null
\* output.
C13_LaunchFailureResult ==
    (sync.ret # Null /\ sync.child.kind \in {"none", "nolaunch"})
        => SyncValue = DefaultResult

\* C14: execCommandSync never throws: for every input and every outcome of
\* the platform call, a thrown exception included, it returns an array of
\* four elements.
C14_NeverThrows ==
    sync.ret # Null => ~sync.ret[1].threw /\ Len(SyncValue) = 4

\* C14 witness: the platform call of the Node.js variant threw on an empty
\* array, the exception was caught and reported, and the call returned the
\* initial result.
C14_Witness ==
    /\ sync.engine = "node"
    /\ sync.arg = "empty"
    /\ sync.api.threw
    /\ sync.ret = Some(Caught(DefaultResult))

\* An execute() call is made in this step.
ExecuteStep == runs' = runs + 1

\* C15: a second execute() call while the executor is running leaves the run
\* state, both line buffers, both cursors and the exit status unchanged.
C15_SingleFlight ==
    [][ (ExecuteStep /\ bRunning) =>
            UNCHANGED << bRunning, iExitStatus, aStdoutBuffer, aStderrBuffer,
                         iStdoutIndex, iStderrIndex >> ]_vars

\* C16: once a close or error event has ended the run, no later event of
\* that run changes the run state, the exit status, the line buffers or the
\* pending partials.
C16_TerminalAbsorbing ==
    [][ (~bRunning /\ runs > 0 /\ ~ExecuteStep) =>
            UNCHANGED << bRunning, iExitStatus, aStdoutBuffer, aStderrBuffer,
                         sStdoutChunk, sStderrChunk >> ]_vars

\* C17 as claimed: no execute() call raises a synchronous error.
C17_Original == ~threw

\* C17 amended: execute() raises a synchronous error exactly for a command
\* that names no executable (the platform spawn call throws); for every
\* other command, one whose executable cannot be launched included, it
\* returns normally, and the spawn failure arrives as an error event after
\* which the executor is not running.
C17_Amended ==
    /\ threw <=> command = "invalid"
    /\ \A p \in Procs :
           (procs[p].kind = "enoent" /\ procs[p].run = runs
                /\ procs[p].phase # "spawned") => ~bRunning

\* C17 witness: execute() returned normally for an executable that does not
\* exist, and the error event has ended the run.
C17_Witness ==
    /\ command = "enoent"
    /\ ~threw
    /\ lastError.fired
    /\ procs[Len(procs)].run = runs
    /\ procs[Len(procs)].phase = "errored"
    /\ ~bRunning

\* The maximal non-empty stretches of T without the character c, in order.
TokenStarts(T, c) ==
    { i \in 1..Len(T) : T[i] # c /\ (i = 1 \/ T[i - 1] = c) }

TokenEnd(T, c, i) ==
    CHOOSE j \in i..Len(T) :
        /\ \A k \in i..j : T[k] # c
        /\ j = Len(T) \/ T[j + 1] = c

Tokens(T, c) ==
    LET starts == TokenStarts(T, c)
        start(k) == CHOOSE i \in starts :
                        Cardinality({ j \in starts : j <= i }) = k
    IN  [k \in 1..Cardinality(starts) |-> SubSeq(T, start(k), TokenEnd(T, c, start(k)))]

Contains(piece, c) == \E i \in 1..Len(piece) : piece[i] = c

\* A splitString call with a text and the one-character separator ","
\* has returned.
SplitReturned ==
    /\ split.ret # Null
    /\ split.text.isString
    /\ split.sep = Str(<< "," >>)

\* C19 as claimed: the array holds the pieces of the text between
\* separators, runs of separators counting as one: no element contains the
\* separator and no element is empty; a non-empty text without separator
\* gives the one-element array of the text, the empty text the empty array.
C19_Original ==
    SplitReturned =>
        LET a == split.ret[1]
            T == split.text.chars
        IN  /\ \A k \in 1..Len(a) : ~Contains(a[k], ",") /\ a[k] # <<>>
            /\ a = Tokens(T, ",")
            /\ (T # <<>> /\ ~Contains(T, ",")) => a = << T >>
            /\ T = <<>> => a = <<>>

\* C19 amended: as claimed, except that a text that begins with the
\* separator gives an empty first element: the array is the non-empty
\* pieces in order, preceded by one empty string exactly when the text
\* begins with the separator; no element after the first is empty.
C19_Amended ==
    SplitReturned =>
        LET a == split.ret[1]
            T == split.text.chars
        IN  /\ \A k \in 1..Len(a) : ~Contains(a[k], ",")
            /\ \A k \in 2..Len(a) : a[k] # <<>>
            /\ a = (IF StartsWith(T, ",") THEN << <<>> >> ELSE <<>>)
                       \o Tokens(T, ",")
            /\ (T # <<>> /\ ~Contains(T, ",")) => a = << T >>
            /\ T = <<>> => a = <<>>

\* C19 witness: the text ",,a," was split at ",": the leading run gave one
\* empty element, the trailing separator none.
C19_Witness ==
    /\ split.text = Str(<< ",", ",", "a", "," >>)
    /\ split.sep = Str(<< "," >>)
    /\ split.ret = Some(<< <<>>, << "a" >> >>)

\* A chunk arrives on stream s in this step.
DataStep(s) == written'[s] # written[s] /\ ~ExecuteStep

\* C20: while the executor is running, a chunk that arrives on either
\* stream wakes the suspended caller the executor holds.
C20_DataWakesWaiter ==
    [][ \A s \in Streams, r \in Readers :
          (DataStep(s) /\ bRunning /\ pc[r] = "suspended" /\ Held(r))
              => pc'[r] = "woken" ]_vars

\* The state of executor e is what its own child and its own consumer made
\* it: its buffers and partials are the lines and the remainder of the text
\* of its own child, its waiter slots hold no other consumer than its own,
\* and its run state and exit status follow its own child.
OwnState(e) ==
    LET f == heap[e]
        k == kids[e]
    IN  /\ f.aStdoutBuffer = Completed(k.wout)
        /\ f.sStdoutChunk = Segment(k.wout, SepCount(k.wout) + 1)
        /\ f.aStderrBuffer = Completed(k.werr)
        /\ f.sStderrChunk = Segment(k.werr, SepCount(k.werr) + 1)
        /\ f.iStdoutIndex <= Len(f.aStdoutBuffer)
        /\ f.iStderrIndex <= Len(f.aStderrBuffer)
        /\ f.fnOutputResolve \in {NoFn, e}
        /\ f.fnOutputReject \in {NoFn, e}
        /\ f.bRunning => k.phase \in {"spawned", "threw"}
        /\ f.iExitStatus # Null => k.phase = "closed"

\* C18: of two executors running side by side, a step of one (execute, a
\* data, close or error event of its child, a next-line call) leaves the
\* fields and the consumer of the other as they were, and the state of each
\* depends on its own child and consumer only.
C18_Isolation ==
    [][ \A e \in Executors :
          /\ e # actor' => heap'[e] = heap[e] /\ cpc'[e] = cpc[e]
          /\ OwnState(e)' ]_vars

\* C18 witness: both executors are running; the first has buffered "a", its
\* consumer has read it and waits on stdout; the second has buffered "e" on
\* stderr only, and its consumer waits on stderr.
C18_Witness ==
    /\ heap[1].bRunning /\ heap[2].bRunning
    /\ heap[1].aStdoutBuffer = << << "a" >> >>
    /\ heap[1].iStdoutIndex = 1
    /\ cpc[1] = "suspended" /\ cstream[1] = "stdout"
    /\ heap[2].aStdoutBuffer = <<>>
    /\ heap[2].aStderrBuffer = << << "e" >> >>
    /\ cpc[2] = "suspended" /\ cstream[2] = "stderr"

\* The close event of the child of the current run is delivered in this step.
CloseStep ==
    \E p \in Procs : /\ procs[p].run = runs
                     /\ procs[p].phase # "closed"
                     /\ procs'[p].phase = "closed"

\* C21: with one caller suspended on stdout and one suspended on stderr, the
\* close event of the child wakes both, so that both calls settle: neither
\* is left suspended because the other registered after it.
C21_BothStreamsSettle ==
    [][ CloseStep =>
          \A r1, r2 \in Readers :
              (pc[r1] = "suspended" /\ rstream[r1] = "stdout"
                   /\ pc[r2] = "suspended" /\ rstream[r2] = "stderr")
                  => pc'[r1] = "woken" /\ pc'[r2] = "woken" ]_vars

\* The close event of process p is delivered in this step.
Closes(p) == procs[p].phase # "closed" /\ procs'[p].phase = "closed"

\* The continuation of woken reader r runs in this step.
Resumes(r) == pc[r] = "woken" /\ pc'[r] # "woken"

\* C22: a close event sets, in one step, the executor to not running with
\* the exit status the event carries and wakes the caller the executor
\* holds; a woken caller that finds the executor not running returns a line
\* or end-of-stream and does not suspend again; and between the two only a
\* new execute() makes the executor running again.
C22_CloseWakes ==
    [][ /\ \A p \in Procs :
               Closes(p) =>
                   /\ ~bRunning'
                   /\ iExitStatus' # Null /\ iExitStatus'[1] \in CloseCodes(p)
                   /\ \A r \in Readers :
                          (pc[r] = "suspended" /\ Held(r)) => pc'[r] = "woken"
        /\ \A r \in Readers :
               (Resumes(r) /\ ~bRunning) =>
                   /\ pc'[r] = "idle"
                   /\ Settles(rstream[r])
                   /\ Last(results'[rstream[r]]).kind \in {"line", "eof"}
        /\ (~bRunning /\ ~ExecuteStep) => ~bRunning' ]_vars

\* C22 witness: in the first run a caller was woken with the executor not
\* running (woken by the close event: no other child exists), and the last
\* call on stdout returned end-of-stream.
C22_Witness ==
    /\ runs = 1
    /\ ChildClosed
    /\ "stopped" \in seen
    /\ results["stdout"] # <<>>
    /\ Last(results["stdout"]) = Eof
    /\ \A r \in Readers : pc[r] = "idle"

\* C23: termination loses no buffered line: a call made while the executor
\* is not running and a line is unread returns that line, and when a call
\* returns end-of-stream the calls before it have returned every line of
\* the buffer, in buffer order.
C23_TerminationLosesNoLine ==
    [][ \A s \in Streams :
          /\ (Settles(s) /\ Last(results'[s]).kind = "eof")
                 => LinesOf(results[s]) = Buffer(s)
          /\ (Settles(s) /\ Last(results'[s]).kind # "error"
                         /\ ~bRunning /\ Cursor(s) < Len(Buffer(s)))
                 => Last(results'[s]) = Line(Buffer(s)[Cursor(s) + 1]) ]_vars

\* C23 witness: the printf child closed, a line was returned after that
\* (while the executor was not running), and the calls on stdout returned
\* "a", "b" and then end-of-stream.
C23_Witness ==
    /\ runs = 1
    /\ ChildClosed
    /\ "late" \in seen
    /\ written["stdout"] = Printf
    /\ results["stdout"] = << Line(<< "a" >>), Line(<< "b" >>), Eof >>

\* Reader r suspends on stream s in this step.
Suspends(r, s) == pc[r] # "suspended" /\ pc'[r] = "suspended" /\ rstream'[r] = s

\* C24: a next-line call suspends only if its stream has no unread line at
\* the cursor and the executor is running; with a line unread the call
\* returns that line without suspending, whatever the run state.
C24_SuspendsOnlyIfNothingUnread ==
    [][ \A s \in Streams :
          /\ \A r \in Readers :
                 Suspends(r, s) => bRunning /\ Cursor(s) >= Len(Buffer(s))
          /\ (Settles(s) /\ Last(results'[s]).kind # "error"
                         /\ Cursor(s) < Len(Buffer(s)))
                 => Last(results'[s]) = Line(Buffer(s)[Cursor(s) + 1]) ]_vars

\* C24 witness: a call returned "a" and the next call, finding nothing
\* unread and the executor running, is suspended.
C24_Witness ==
    /\ bRunning
    /\ results["stdout"] = << Line(<< "a" >>) >>
    /\ iStdoutIndex = 1
    /\ Len(aStdoutBuffer) = 1
    /\ pc[1] = "suspended" /\ rstream[1] = "stdout" /\ Held(1)

\* C25: a wake-up is a hint: a woken caller that finds no unread line on
\* its stream and the executor still running suspends again and returns
\* nothing; a woken caller that returns a line returns the buffer entry at
\* the cursor.
C25_WakeIsHint ==
    [][ \A r \in Readers :
          Resumes(r) =>
              LET s == rstream[r]
              IN  /\ (bRunning /\ Cursor(s) >= Len(Buffer(s)))
                         => /\ pc'[r] = "suspended"
                            /\ rstream'[r] = s
                            /\ results' = results
                            /\ Cursor(s)' = Cursor(s)
                  /\ (Settles(s) /\ Last(results'[s]).kind = "line")
                         => Last(results'[s]).line = Buffer(s)[Cursor(s) + 1] ]_vars

\* C25 witness: the only chunk so far, "a" without separator, woke the
\* caller suspended on stdout; it found no line and suspended again.
C25_Witness ==
    /\ runs = 1
    /\ bRunning
    /\ "again" \in seen
    /\ written = [s \in Streams |-> IF s = "stdout" THEN << "a" >> ELSE <<>>]
    /\ results = [s \in Streams |-> <<>>]
    /\ pc[1] = "suspended" /\ rstream[1] = "stdout" /\ Held(1)
    /\ pc[2] = "idle"

\* C26: execute puts the executor in the running state with a null exit
\* status, both line buffers empty, both partial chunks empty and both
\* cursors at 0, whatever the previous run left.
C26_ExecuteResets ==
    [][ ExecuteStep =>
            /\ bRunning'
            /\ iExitStatus' = Null
            /\ \A s \in Streams :
                   /\ Buffer(s)' = <<>>
                   /\ Partial(s)' = <<>>
                   /\ Cursor(s)' = 0 ]_vars

\* C26 witness: the first process delivered all its output and closed; the
\* second execute has just run and no event of its process has arrived.
C26_Witness ==
    /\ runs = 2
    /\ Len(procs) = 2
    /\ procs[1].kind = "ok" /\ procs[1].phase = "closed"
    /\ procs[1].out = <<>> /\ procs[1].err = <<>>
    /\ procs[2].phase = "spawned"
    /\ written = [s \in Streams |-> <<>>]
    /\ bRunning /\ iExitStatus = Null
    /\ \A s \in Streams : Buffer(s) = <<>> /\ Partial(s) = <<>> /\ Cursor(s) = 0

\* An event of a process started by an earlier execute is handled.
StaleEventStep == \E p \in Procs : IsStale(p) /\ procs'[p] # procs[p]

\* C27: no run's state leaks into the next: after a later execute, no data,
\* close or error event of a process started by an earlier execute changes
\* the run state, the exit status, the line buffers or the partial chunks,
\* and no such event wakes or rejects a reader.
C27_NoLeakBetweenRuns ==
    [][ StaleEventStep =>
            /\ UNCHANGED << bRunning, iExitStatus, aStdoutBuffer, aStderrBuffer,
                            sStdoutChunk, sStderrChunk >>
            /\ UNCHANGED pc ]_vars

\* C28: in every reachable state each cursor is at most the length of its
\* line buffer, and within one run (on every step that is not an execute)
\* no cursor decreases.
C28_CursorBounded ==
    /\ [](\A s \in Streams : Cursor(s) <= Len(Buffer(s)))
    /\ [][ ~ExecuteStep => \A s \in Streams : Cursor(s)' >= Cursor(s) ]_vars

\* C28 witness: both lines of stdout were read, the cursor stands at the end
\* of its buffer; the stderr cursor is behind the end of its buffer.
C28_Witness ==
    /\ runs = 1
    /\ Len(aStdoutBuffer) = 2 /\ iStdoutIndex = 2
    /\ Len(results["stdout"]) = 2
    /\ Len(aStderrBuffer) = 1 /\ iStderrIndex = 0

\* C29: the exit status is non-null only when the executor is not running;
\* a close event leaves the executor not running with the code of that event
\* as exit status, and only execute and close write the exit status.
C29_ExitStatusOnlyWhenStopped ==
    /\ [](bRunning => iExitStatus = Null)
    /\ [][ /\ \A p \in Procs :
                Closes(p) => /\ ~bRunning'
                             /\ \E c \in CloseCodes(p) : iExitStatus' = Some(c)
           /\ iExitStatus' # iExitStatus
                => (ExecuteStep \/ \E p \in Procs : Closes(p)) ]_vars

\* C29 witness: the child ran, delivered its output and closed with code 1.
C29_Witness ==
    /\ runs = 1
    /\ Len(procs) = 1
    /\ procs[1].kind = "ok" /\ procs[1].phase = "closed"
    /\ ~bRunning
    /\ iExitStatus = Some(1)

\* A next-line call returns or suspends.
CallStep == \E r \in Readers : pc'[r] # pc[r] /\ pc[r] \in {"idle", "woken"}

\* C30: within one run each line buffer is append-only: every step that is
\* not an execute leaves the lines already in a buffer unchanged in value and
\* position, and a step of a next-line call leaves both buffers unchanged.
C30_BufferAppendOnly ==
    [][ /\ ~ExecuteStep => \A s \in Streams : IsPrefix(Buffer(s), Buffer(s)')
        /\ CallStep => \A s \in Streams : Buffer(s)' = Buffer(s) ]_vars

\* C30 witness: the line "a" was buffered and read, then a later chunk
\* appended "b" behind it, and the reader got both.
C30_Witness ==
    /\ runs = 1
    /\ bRunning
    /\ aStdoutBuffer = << << "a" >>, << "b" >> >>
    /\ results["stdout"] = << Line(<< "a" >>), Line(<< "b" >>) >>
    /\ iStdoutIndex = 2

\* The other stream.
Other(s) == IF s = "stdout" THEN "stderr" ELSE "stdout"

\* A pass of the next-line method of stream s: a new call, or the
\* continuation of a call on s that was woken or rejected.
StreamCallStep(s) ==
    \E r \in Readers :
        /\ pc[r] # "suspended"
        /\ pc'[r] # pc[r]
        /\ IF pc[r] = "idle"
           THEN rstream'[r] = s \/ Settles(s)
           ELSE rstream[r] = s

C32_ThrowLeavesStopped == threw => ~bRunning

====
